---- MODULE Spec2Model ----
(***************************************************************************)
(* jsonstate: a tree of State objects (level, source, message, children,   *)
(* override flag) with override merge (Apply), level aggregation           *)
(* (AggregateLevels), lookup (FindBySource), flattening (Flatten) and the  *)
(* JSON encoding fixed by the struct tags of State.                        *)
(*                                                                         *)
(* A *State is a pointer: the heap is a sequence of State records and a    *)
(* pointer is an index into it (Nil is the nil pointer).  A []*State is a  *)
(* slice: nil, or a (possibly empty) sequence of pointers.                 *)
(***************************************************************************)
EXTENDS Integers, Sequences, FiniteSets, TLC

VARIABLES heap, pre, op, flat, found, decoded, fault, disciplined, steps

vars == <<heap, pre, op, flat, found, decoded, fault, disciplined, steps>>

\* ---------------------------------------------------------------- bounds

\* Specification Spec: number of State objects allocated with New.
MaxNodes == 3
\* Specification Spec: number of operations in one run.
MaxSteps == 5
\* Longest source_path handed to FindBySource.
MaxPath == 2

\* ----------------------------------------------------------- data model

Nil == 0

NilTree == [isNil |-> TRUE, elems |-> <<>>]

Slice(elems) == [isNil |-> FALSE, elems |-> elems]

EmptyHeap == <<>>

Ptrs(h) == 1..Len(h)

\* &State{Source: source}: every other field has its zero value.
NewState(source) ==
    [Level |-> 0, Source |-> source, Message |-> "", Tree |-> NilTree,
     Override |-> FALSE]

\* New allocates; the new pointer is Len of the returned heap.
New(h, source) == Append(h, NewState(source))

Set(h, s, level, message) ==
    [h EXCEPT ![s].Level = level, ![s].Message = message]

RECURSIVE Add(_, _, _)

\* A wrong Add, which appends the receiver in place of the loop variable.
Add_self(h, s, s_list) ==
    IF s_list = <<>> THEN h
    ELSE Add([h EXCEPT ![s].Tree = Slice(Append(@.elems, s))], s, Tail(s_list))

Add(h, s, s_list) ==
    IF s_list = <<>> THEN h
    ELSE Add([h EXCEPT ![s].Tree = Slice(Append(@.elems, Head(s_list)))],
             s, Tail(s_list))

\* ------------------------------------------------------------------ Apply

\* A wrong field replacement: the condition the comment of line 87 words,
\* "iff Source matches", in place of the one line 88 tests.
ApplyFields_iffMatch(h, s, override) ==
    IF h[override].Source = h[s].Source
    THEN [h EXCEPT ![s].Override = TRUE,
                   ![s].Level = h[override].Level,
                   ![s].Message = h[override].Message]
    ELSE h

\* A wrong field replacement, which copies the child list of the override too.
ApplyFields_copyTree(h, s, override) ==
    IF h[override].Source # h[s].Source
    THEN [h EXCEPT ![s].Override = TRUE,
                   ![s].Level = h[override].Level,
                   ![s].Message = h[override].Message,
                   ![s].Tree = h[override].Tree]
    ELSE h

\* Lines 88-92: the field replacement step of one call of Apply.
ApplyFields(h, s, override) ==
    IF h[override].Source # h[s].Source
    THEN [h EXCEPT ![s].Override = TRUE,
                   ![s].Level = h[override].Level,
                   ![s].Message = h[override].Message]
    ELSE h

\* A wrong filter, which stops at the first child with the source.
RECURSIVE FirstWithSource(_, _, _)
FirstWithSource(h, list, source) ==
    IF list = <<>> THEN <<>>
    ELSE IF h[Head(list)].Source = source THEN <<Head(list)>>
    ELSE FirstWithSource(h, Tail(list), source)

Candidates_firstOnly(h, s, override_it) ==
    IF h[override_it].Source # "*"
    THEN FirstWithSource(h, h[s].Tree.elems, h[override_it].Source)
    ELSE h[s].Tree.elems

\* Lines 99-111: the children of s that one override child is applied to.
Candidates(h, s, override_it) ==
    IF h[override_it].Source # "*"
    THEN SelectSeq(h[s].Tree.elems,
                   LAMBDA s_it : h[s_it].Source = h[override_it].Source)
    ELSE h[s].Tree.elems

RECURSIVE Apply(_, _, _)
RECURSIVE ApplyEach(_, _, _)
RECURSIVE ApplyOverrides(_, _, _)

\* Lines 114-116: for _, s_it := range list { s_it.Apply(override_it) }
ApplyEach(h, list, override_it) ==
    IF list = <<>> THEN h
    ELSE ApplyEach(Apply(h, Head(list), override_it), Tail(list), override_it)

\* Lines 96-117: for _, override_it := range override.Tree { ... }
ApplyOverrides(h, s, overrides) ==
    IF overrides = <<>> THEN h
    ELSE ApplyOverrides(
            ApplyEach(h, Candidates(h, s, Head(overrides)), Head(overrides)),
            s, Tail(overrides))

Apply(h, s, override) ==
    IF override = Nil THEN h
    ELSE LET h1 == ApplyFields(h, s, override)
         IN  IF ~h1[override].Tree.isNil /\ ~h1[s].Tree.isNil
             THEN ApplyOverrides(h1, s, h1[override].Tree.elems)
             ELSE h1

\* The chain of calls s.Apply(override) never ends: some pair (s, override)
\* is reached again from itself, and neither Source nor Tree, which decide
\* the calls, is ever written by Apply.
RECURSIVE ApplyDiverges(_, _, _, _)
ApplyDiverges(h, s, override, onStack) ==
    /\ override # Nil
    /\ \/ <<s, override>> \in onStack
       \/ /\ ~h[override].Tree.isNil
          /\ ~h[s].Tree.isNil
          /\ \E i \in DOMAIN h[override].Tree.elems :
               LET override_it == h[override].Tree.elems[i]
                   list == Candidates(h, s, override_it)
               IN  \E j \in DOMAIN list :
                      ApplyDiverges(h, list[j], override_it,
                                    onStack \cup {<<s, override>>})

\* -------------------------------------------------------- AggregateLevels

RECURSIVE AggregateLevels(_, _)
RECURSIVE AggregateLoop(_, _, _)

\* Lines 167-176: the loop over s.Tree; returns the heap and maxLevel.
AggregateLoop(h, list, maxLevel) ==
    IF list = <<>> THEN [h |-> h, maxLevel |-> maxLevel]
    ELSE LET h1 == AggregateLevels(h, Head(list))
             lv == h1[Head(list)].Level
         IN  AggregateLoop(h1, Tail(list),
                           IF lv > maxLevel THEN lv ELSE maxLevel)

\* A wrong AggregateLevels, which keeps the level of an overridden node.
AggregateLevels_keepOverride(h, s) ==
    IF h[s].Tree.isNil THEN h
    ELSE LET r == AggregateLoop(h, h[s].Tree.elems, 0)
         IN  IF h[s].Override THEN r.h
             ELSE [r.h EXCEPT ![s].Level = r.maxLevel]

AggregateLevels(h, s) ==
    IF h[s].Tree.isNil THEN h
    ELSE LET r == AggregateLoop(h, h[s].Tree.elems, 0)
         IN  [r.h EXCEPT ![s].Level = r.maxLevel]

\* The recursion over Tree (AggregateLevels, rflat) never ends: a node is
\* reached again from itself.
RECURSIVE Cyclic(_, _, _)
Cyclic(h, s, onStack) ==
    \/ s \in onStack
    \/ /\ ~h[s].Tree.isNil
       /\ \E i \in DOMAIN h[s].Tree.elems :
            Cyclic(h, h[s].Tree.elems[i], onStack \cup {s})

\* ----------------------------------------------------------- FindBySource

RECURSIVE FindBySource(_, _, _)
RECURSIVE FindLoop(_, _, _)

\* A wrong loop, which tries the later siblings when the search below the
\* first match finds nothing.
FindLoop_backtrack(h, list, source_path) ==
    IF list = <<>> THEN Nil
    ELSE IF h[Head(list)].Source = source_path[1]
         THEN IF Len(source_path) > 1
              THEN LET r == FindBySource(h, Head(list), Tail(source_path))
                   IN  IF r # Nil THEN r
                       ELSE FindLoop(h, Tail(list), source_path)
              ELSE Head(list)
         ELSE FindLoop(h, Tail(list), source_path)

\* Lines 146-155: the loop over s.Tree.
FindLoop(h, list, source_path) ==
    IF list = <<>> THEN Nil
    ELSE IF h[Head(list)].Source = source_path[1]
         THEN IF Len(source_path) > 1
              THEN FindBySource(h, Head(list), Tail(source_path))
              ELSE Head(list)
         ELSE FindLoop(h, Tail(list), source_path)

FindBySource(h, s, source_path) ==
    IF h[s].Tree.isNil THEN Nil
    ELSE IF Len(source_path) > 0
         THEN FindLoop(h, h[s].Tree.elems, source_path)
         ELSE Nil

\* ---------------------------------------------------------------- Flatten

\* Lines 218-223: the FlatState literal names Depth, Level, Source and
\* Message; Override keeps its zero value.
FlatEntry(h, rs, depth) ==
    [Depth |-> depth, Level |-> h[rs].Level, Source |-> h[rs].Source,
     Message |-> h[rs].Message, Override |-> FALSE]

RECURSIVE rflat(_, _, _)
RECURSIVE rflatLoop(_, _, _)

\* Lines 227-233.
rflatLoop(h, list, depth) ==
    IF list = <<>> THEN <<>>
    ELSE rflat(h, Head(list), depth) \o rflatLoop(h, Tail(list), depth)

rflat(h, rs, depth) ==
    <<FlatEntry(h, rs, depth)>>
    \o (IF ~h[rs].Tree.isNil THEN rflatLoop(h, h[rs].Tree.elems, depth + 1)
        ELSE <<>>)

Flatten(h, s) == rflat(h, s, 0)

\* ------------------------------------------------------------ JSON encoding

\* encoding/json on State, by the struct tags of lines 24-28: "level" is
\* always written; "source" and "message" are omitted when empty, "tree"
\* when its length is 0 (a nil slice and an empty one alike), "override"
\* when false.  A JSON object is a function from its keys.
RECURSIVE Marshal(_, _)
Marshal(h, s) ==
    LET keys == {"level"}
                \cup (IF h[s].Source # "" THEN {"source"} ELSE {})
                \cup (IF h[s].Message # "" THEN {"message"} ELSE {})
                \cup (IF Len(h[s].Tree.elems) # 0 THEN {"tree"} ELSE {})
                \cup (IF h[s].Override THEN {"override"} ELSE {})
    IN  [k \in keys |->
            CASE k = "level" -> h[s].Level
              [] k = "source" -> h[s].Source
              [] k = "message" -> h[s].Message
              [] k = "tree" -> [i \in DOMAIN h[s].Tree.elems |->
                                   Marshal(h, h[s].Tree.elems[i])]
              [] k = "override" -> h[s].Override]

\* encoding/json into a fresh State: a key that is absent leaves the zero
\* value of its field; a "tree" array becomes a non-nil slice of new States.
RECURSIVE UnmarshalInto(_, _)
RECURSIVE UnmarshalList(_, _, _)

UnmarshalList(h, docs, ptrs) ==
    IF docs = <<>> THEN [h |-> h, ptrs |-> ptrs]
    ELSE LET r == UnmarshalInto(h, Head(docs))
         IN  UnmarshalList(r.h, Tail(docs), Append(ptrs, r.root))

UnmarshalInto(h, doc) ==
    LET node == [Level |-> IF "level" \in DOMAIN doc THEN doc["level"] ELSE 0,
                 Source |-> IF "source" \in DOMAIN doc THEN doc["source"] ELSE "",
                 Message |-> IF "message" \in DOMAIN doc THEN doc["message"] ELSE "",
                 Tree |-> NilTree,
                 Override |-> IF "override" \in DOMAIN doc THEN doc["override"]
                              ELSE FALSE]
        h1 == Append(h, node)
        root == Len(h1)
    IN  IF "tree" \in DOMAIN doc
        THEN LET r == UnmarshalList(h1, doc["tree"], <<>>)
             IN  [h |-> [r.h EXCEPT ![root].Tree = Slice(r.ptrs)], root |-> root]
        ELSE [h |-> h1, root |-> root]

Unmarshal(doc) == UnmarshalInto(EmptyHeap, doc)

\* ------------------------------------------------------- graph of the heap

Children(h, s) == {h[s].Tree.elems[i] : i \in DOMAIN h[s].Tree.elems}

\* The nodes reachable from the nodes of S through Tree, S included.
RECURSIVE Reach(_, _)
Reach(h, S) ==
    LET T == S \cup UNION {Children(h, s) : s \in S}
    IN  IF T = S THEN S ELSE Reach(h, T)

\* The number of links to c held by the Tree of any node.
RECURSIVE Occurrences(_, _)
Occurrences(list, c) ==
    IF list = <<>> THEN 0
    ELSE (IF Head(list) = c THEN 1 ELSE 0) + Occurrences(Tail(list), c)

RECURSIVE SumLinks(_, _, _)
SumLinks(h, c, n) ==
    IF n = 0 THEN 0
    ELSE Occurrences(h[n].Tree.elems, c) + SumLinks(h, c, n - 1)

Links(h, c) == SumLinks(h, c, Len(h))

\* Every node has at most one link to it and none reaches itself.
StrictForest(h) ==
    /\ \A c \in Ptrs(h) : Links(h, c) <= 1
    /\ \A s \in Ptrs(h) : s \notin Reach(h, Children(h, s))

\* An Add whose caller keeps ownership exclusive: each node handed over has
\* no parent yet and is neither s nor an ancestor of s.
RECURSIVE ProperAdd(_, _, _)
ProperAdd(h, s, s_list) ==
    \/ s_list = <<>>
    \/ /\ Links(h, Head(s_list)) = 0
       /\ s \notin Reach(h, {Head(s_list)})
       /\ ProperAdd(Add(h, s, <<Head(s_list)>>), s, Tail(s_list))

\* ------------------------------------------------------------- operations

NoOp == [name |-> "init", s |-> Nil, o |-> Nil, path |-> <<>>,
         afterApply |-> FALSE]

Call(name, s, o, path) ==
    [name |-> name, s |-> s, o |-> o, path |-> path,
     afterApply |-> (name = "AggregateLevels" /\ op.name = "Apply"
                     /\ op.s = s /\ op.o # Nil)]

NoDecoded == [h |-> EmptyHeap, root |-> Nil]

NoResult ==
    /\ flat' = <<>>
    /\ found' = Nil
    /\ decoded' = NoDecoded

NewAct(source) ==
    /\ ~fault
    /\ heap' = New(heap, source)
    /\ pre' = heap
    /\ op' = Call("New", Len(heap) + 1, Nil, <<>>)
    /\ NoResult
    /\ UNCHANGED <<fault, disciplined>>

SetAct(s, level, message) ==
    /\ ~fault
    /\ heap' = Set(heap, s, level, message)
    /\ pre' = heap
    /\ op' = Call("Set", s, Nil, <<>>)
    /\ NoResult
    /\ UNCHANGED <<fault, disciplined>>

AddAct(s, s_list) ==
    /\ ~fault
    /\ heap' = Add(heap, s, s_list)
    /\ pre' = heap
    /\ op' = Call("Add", s, Nil, s_list)
    /\ disciplined' = (disciplined /\ ProperAdd(heap, s, s_list))
    /\ NoResult
    /\ UNCHANGED fault

\* A recursion that never ends exhausts the goroutine stack: the runtime
\* stops the program with a fatal error.
ApplyAct(s, o) ==
    /\ ~fault
    /\ pre' = heap
    /\ op' = Call("Apply", s, o, <<>>)
    /\ IF ApplyDiverges(heap, s, o, {})
       THEN fault' = TRUE /\ heap' = heap
       ELSE fault' = fault /\ heap' = Apply(heap, s, o)
    /\ NoResult
    /\ UNCHANGED disciplined

AggregateAct(s) ==
    /\ ~fault
    /\ pre' = heap
    /\ op' = Call("AggregateLevels", s, Nil, <<>>)
    /\ IF Cyclic(heap, s, {})
       THEN fault' = TRUE /\ heap' = heap
       ELSE fault' = fault /\ heap' = AggregateLevels(heap, s)
    /\ NoResult
    /\ UNCHANGED disciplined

FlattenAct(s) ==
    /\ ~fault
    /\ pre' = heap
    /\ op' = Call("Flatten", s, Nil, <<>>)
    /\ IF Cyclic(heap, s, {})
       THEN fault' = TRUE /\ flat' = <<>>
       ELSE fault' = fault /\ flat' = Flatten(heap, s)
    /\ found' = Nil
    /\ decoded' = NoDecoded
    /\ UNCHANGED <<heap, disciplined>>

FindAct(s, source_path) ==
    /\ ~fault
    /\ pre' = heap
    /\ op' = Call("FindBySource", s, Nil, source_path)
    /\ found' = FindBySource(heap, s, source_path)
    /\ flat' = <<>>
    /\ decoded' = NoDecoded
    /\ UNCHANGED <<heap, fault, disciplined>>

\* The tree is written as JSON and read back into a fresh State.
RoundTripAct(s) ==
    /\ ~fault
    /\ pre' = heap
    /\ op' = Call("RoundTrip", s, Nil, <<>>)
    /\ decoded' = Unmarshal(Marshal(heap, s))
    /\ flat' = <<>>
    /\ found' = Nil
    /\ UNCHANGED <<heap, fault, disciplined>>

\* --------------------------------------------------------------- inputs

Sources == {"", "a", "*"}

SetLevels == {300}

PathSources == {"a", "*"}

Paths == UNION {[1..n -> PathSources] : n \in 1..MaxPath}

\* ------------------------------------------- Spec: a caller builds trees

Init ==
    /\ heap = EmptyHeap
    /\ pre = EmptyHeap
    /\ op = NoOp
    /\ flat = <<>>
    /\ found = Nil
    /\ decoded = NoDecoded
    /\ fault = FALSE
    /\ disciplined = TRUE
    /\ steps = 0

Tick == steps < MaxSteps /\ steps' = steps + 1

BuildSources == {"a", "*"}

NewStep ==
    /\ Tick
    /\ Len(heap) < MaxNodes
    /\ \E source \in BuildSources : NewAct(source)

SetStep ==
    /\ Tick
    /\ \E s \in Ptrs(heap), level \in SetLevels : SetAct(s, level, "set")

AddStep ==
    /\ Tick
    /\ \E s \in Ptrs(heap) :
         \E s_list \in UNION {[1..n -> Ptrs(heap)] : n \in 1..2} :
            AddAct(s, s_list)

ApplyStep ==
    /\ Tick
    /\ \E s \in Ptrs(heap), o \in Ptrs(heap) \cup {Nil} : ApplyAct(s, o)

AggregateStep ==
    /\ Tick
    /\ \E s \in Ptrs(heap) : AggregateAct(s)

FlattenStep ==
    /\ Tick
    /\ \E s \in Ptrs(heap) : FlattenAct(s)

FindStep ==
    /\ Tick
    /\ \E s \in Ptrs(heap), source_path \in Paths : FindAct(s, source_path)

Next ==
    \/ NewStep
    \/ SetStep
    \/ AddStep
    \/ ApplyStep
    \/ AggregateStep
    \/ FlattenStep
    \/ FindStep

Spec == Init /\ [][Next]_vars

\* ------------------- SpecTrees: a state tree and an override tree are given

\* A tree as a value: what a caller builds with New, Set and Add.
Node(source, level, message, tree) ==
    [Level |-> level, Source |-> source, Message |-> message, Tree |-> tree,
     Override |-> FALSE]

\* The tree value v built in h, the parent before its children: New, Set and
\* Add.  Add never yields an empty non-nil Tree; such a node is written as
\* the literal &State{Tree: []*State{}} (the fields are exported) or decoded
\* from "tree": [].
RECURSIVE Build(_, _)
RECURSIVE BuildList(_, _, _)

BuildList(h, vs, ptrs) ==
    IF vs = <<>> THEN [h |-> h, ptrs |-> ptrs]
    ELSE LET r == Build(h, Head(vs))
         IN  BuildList(r.h, Tail(vs), Append(ptrs, r.root))

Build(h, v) ==
    LET h1 == Set(New(h, v.Source), Len(h) + 1, v.Level, v.Message)
        root == Len(h1)
    IN  IF v.Tree.isNil THEN [h |-> h1, root |-> root]
        ELSE LET r == BuildList(h1, v.Tree.elems, <<>>)
             IN  [h |-> Add([r.h EXCEPT ![root].Tree = Slice(<<>>)], root, r.ptrs),
                  root |-> root]

LeafLevels == {-100, 500}

GrandChildren ==
    {Node(source, level, "", NilTree) : source \in {"a", "*"}, level \in {-100, 500}}

FirstChildren ==
    {Node(source, 200, "m", NilTree) : source \in Sources}

SecondChildren ==
    {Node(source, level, "", NilTree) : source \in Sources, level \in LeafLevels}
    \cup {Node(source, 300, "", Slice(<<>>)) : source \in Sources}
    \cup {Node(source, 0, "", Slice(<<g>>)) : source \in Sources, g \in GrandChildren}

\* Two children with the same source, each with a child of its own.
DuplicateTree ==
    Node("r", 0, "",
         Slice(<<Node("a", 0, "", Slice(<<Node("a", -100, "", NilTree)>>)),
                 Node("a", 0, "", Slice(<<Node("", 500, "", NilTree)>>))>>))

StateTrees ==
    {Node("r", level, "", tree) : level \in {0, 200}, tree \in {NilTree, Slice(<<>>)}}
    \cup {Node("r", 0, "", Slice(<<c1, c2>>)) :
             c1 \in FirstChildren, c2 \in SecondChildren}
    \cup {DuplicateTree}

OverrideGrandChildren ==
    {Node(source, 400, "w", NilTree) : source \in {"a", "*"}}

OverrideChildren ==
    {Node(source, 700, "x", NilTree) : source \in Sources}
    \cup {Node(source, 700, "x", Slice(<<w>>)) :
             source \in Sources, w \in OverrideGrandChildren}

\* An exact-source override child and a wildcard one, in both orders.
OverridePairs ==
    {<<Node("a", 700, "x", NilTree), Node("*", 800, "y", NilTree)>>,
     <<Node("*", 800, "y", NilTree), Node("a", 700, "x", NilTree)>>}

OverrideTrees ==
    {Node(source, 600, "o", NilTree) : source \in {"r", "x"}}
    \cup {Node(source, 600, "o", Slice(<<oc>>)) :
             source \in {"r", "x"}, oc \in OverrideChildren}
    \cup {Node("r", 600, "o", Slice(ocs)) : ocs \in OverridePairs}

\* The state tree is built first: its root is 1.
StateRoot == 1

StateNodes == Reach(heap, {StateRoot})

OverrideNodes == Ptrs(heap) \ StateNodes

\* The override tree is built next: its root follows the state tree.
OverrideRoot == Cardinality(StateNodes) + 1

InitTrees ==
    /\ \E sv \in StateTrees, ov \in OverrideTrees :
          heap = Build(Build(EmptyHeap, sv).h, ov).h
    /\ pre = heap
    /\ op = NoOp
    /\ flat = <<>>
    /\ found = Nil
    /\ decoded = NoDecoded
    /\ fault = FALSE
    /\ disciplined = TRUE
    /\ steps = 0

TreeSet ==
    /\ \E level \in SetLevels : SetAct(StateRoot, level, "set")
    /\ UNCHANGED steps

TreeApply ==
    /\ \E o \in {OverrideRoot, Nil} : ApplyAct(StateRoot, o)
    /\ UNCHANGED steps

TreeAggregate ==
    /\ AggregateAct(StateRoot)
    /\ UNCHANGED steps

TreeFlatten ==
    /\ FlattenAct(StateRoot)
    /\ UNCHANGED steps

TreeFind ==
    /\ \E source_path \in Paths : FindAct(StateRoot, source_path)
    /\ UNCHANGED steps

TreeRoundTrip ==
    /\ RoundTripAct(StateRoot)
    /\ UNCHANGED steps

NextTrees ==
    \/ TreeSet
    \/ TreeApply
    \/ TreeAggregate
    \/ TreeFlatten
    \/ TreeFind
    \/ TreeRoundTrip

SpecTrees == InitTrees /\ [][NextTrees]_vars

\* ----------------------------------------------------------------- claims

Fields(n) == <<n.Level, n.Message, n.Override>>

IsApply == op.name = "Apply" /\ op.o # Nil /\ ~fault

BothContainers == ~pre[op.s].Tree.isNil /\ ~pre[op.o].Tree.isNil

\* C1: Apply leaves the shape of the tree unchanged: the same nodes, each
\* with the same source and the same child list (order and nil-ness
\* included), whether the override is absent, matches or matches nothing.
C1_ApplyKeepsShape ==
    op.name = "Apply" =>
        /\ Len(heap) = Len(pre)
        /\ \A x \in Ptrs(pre) :
              /\ heap[x].Source = pre[x].Source
              /\ heap[x].Tree = pre[x].Tree

\* An Apply that changed fields while one override child matched no child.
C1_Witness ==
    /\ IsApply
    /\ BothContainers
    /\ heap # pre
    /\ \E oc \in Children(pre, op.o) :
          /\ pre[oc].Source # "*"
          /\ \A c \in Children(pre, op.s) : pre[c].Source # pre[oc].Source

\* C2: one call of Apply replaces level and message of s by the override's
\* and sets the override flag exactly when the sources differ, and leaves
\* the three fields alone when the sources are equal; so the children that
\* the exact-source filter selects keep their fields.
C2_FieldReplacement ==
    IsApply =>
        /\ IF pre[op.o].Source # pre[op.s].Source
           THEN Fields(heap[op.s]) = <<pre[op.o].Level, pre[op.o].Message, TRUE>>
           ELSE Fields(heap[op.s]) = Fields(pre[op.s])
        /\ (BothContainers
            /\ \A oc \in Children(pre, op.o) : pre[oc].Source # "*")
           => \A c \in Children(pre, op.s) : Fields(heap[c]) = Fields(pre[c])

\* The override names child "a" with another level; "a" keeps level 200.
C2_Witness ==
    /\ IsApply
    /\ BothContainers
    /\ pre[op.o].Source = pre[op.s].Source
    /\ \E oc \in Children(pre, op.o), c \in Children(pre, op.s) :
          /\ pre[oc].Source = "a"
          /\ pre[c].Source = "a"
          /\ pre[oc].Level = 700
          /\ pre[c].Level = 200
          /\ Fields(heap[c]) = <<200, "m", FALSE>>
          /\ Children(pre, op.o) = {oc}

\* C3: with an override of the same source as s whose only child is the
\* wildcard w, every direct child of s, whatever its source, gets level and
\* message of w and the override flag, and s itself is left alone.
C3_WildcardAllChildren ==
    (/\ IsApply
     /\ BothContainers
     /\ pre[op.o].Source = pre[op.s].Source
     /\ Len(pre[op.o].Tree.elems) = 1
     /\ pre[pre[op.o].Tree.elems[1]].Source = "*")
    => LET w == pre[op.o].Tree.elems[1]
       IN  /\ \A c \in Children(pre, op.s) :
                 Fields(heap[c]) = <<pre[w].Level, pre[w].Message, TRUE>>
           /\ Fields(heap[op.s]) = Fields(pre[op.s])

Maximum(S) == CHOOSE m \in S : \A n \in S : n <= m

ChildLevels(h, x) == {h[c].Level : c \in Children(h, x)}

\* C4: after AggregateLevels every node with a non-nil child list has the
\* maximum of the levels of its children, negative levels included, and 0
\* when the list is empty.
C4_AggregateIsMax ==
    (op.name = "AggregateLevels" /\ ~fault) =>
        \A x \in Reach(pre, {op.s}) :
            ~pre[x].Tree.isNil =>
                heap[x].Level = IF Children(heap, x) = {} THEN 0
                                ELSE Maximum(ChildLevels(heap, x))

\* C5: whatever the calls of New, Add, Set, Apply and AggregateLevels, the
\* structure is a strict tree and no recursive operation fails to end.
C5_AlwaysStrictTree == StrictForest(heap) /\ ~fault

\* C5 as amended: the structure is a strict tree, and every recursive
\* operation ends, as long as every Add so far handed over only nodes that
\* had no parent and were neither the receiver nor one of its ancestors.
C5_StrictTreeIfProperAdd == disciplined => (StrictForest(heap) /\ ~fault)

\* A node with two children was aggregated after proper Adds.
C5_Witness ==
    /\ disciplined
    /\ op.name = "AggregateLevels"
    /\ Cardinality(Children(heap, op.s)) = 2

\* The tree below s as a value: fields and children, child lists nil or not.
RECURSIVE TreeValue(_, _)
TreeValue(h, s) ==
    [Level |-> h[s].Level, Source |-> h[s].Source, Message |-> h[s].Message,
     Override |-> h[s].Override,
     Tree |-> [isNil |-> h[s].Tree.isNil,
               elems |-> [i \in DOMAIN h[s].Tree.elems |->
                             TreeValue(h, h[s].Tree.elems[i])]]]

\* C6: writing a tree as JSON and reading it back gives the same tree, nil
\* child lists nil and empty ones empty, so that AggregateLevels gives the
\* same levels on both.
C6_RoundTripKeepsNilVsEmpty ==
    op.name = "RoundTrip" =>
        /\ TreeValue(decoded.h, decoded.root) = TreeValue(heap, op.s)
        /\ TreeValue(AggregateLevels(decoded.h, decoded.root), decoded.root)
              = TreeValue(AggregateLevels(heap, op.s), op.s)

\* The projection of a node that C7 describes.
Projection(h, x, depth) ==
    [Depth |-> depth, Level |-> h[x].Level, Source |-> h[x].Source,
     Message |-> h[x].Message, Override |-> h[x].Override]

RECURSIVE PreOrder(_, _, _)
RECURSIVE PreOrderAll(_, _, _)

PreOrderAll(h, list, depth) ==
    IF list = <<>> THEN <<>>
    ELSE PreOrder(h, Head(list), depth) \o PreOrderAll(h, Tail(list), depth)

PreOrder(h, x, depth) ==
    <<Projection(h, x, depth)>> \o PreOrderAll(h, h[x].Tree.elems, depth + 1)

\* C7: Flatten yields one entry per node in depth-first pre-order, each the
\* projection of its node: depth, level, source, message and override flag.
C7_FlattenProjects ==
    (op.name = "Flatten" /\ ~fault) => flat = PreOrder(heap, op.s, 0)

\* The first child of cur, in order, whose source is source.
FirstChild(h, cur, source) ==
    LET elems == h[cur].Tree.elems
        hits == {i \in DOMAIN elems : h[elems[i]].Source = source}
    IN  IF cur = Nil \/ hits = {} THEN Nil
        ELSE elems[CHOOSE i \in hits : \A j \in hits : i <= j]

RECURSIVE Descend(_, _, _)
Descend(h, cur, source_path) ==
    IF source_path = <<>> \/ cur = Nil THEN cur
    ELSE Descend(h, IF h[cur].Tree.isNil THEN Nil
                    ELSE FirstChild(h, cur, Head(source_path)),
                 Tail(source_path))

\* C8: FindBySource with a path of at least one source changes nothing,
\* does not fail, and returns the node reached by taking at each level the
\* first child with that source, or not-found; it never goes back to a
\* later sibling with the same source.
C8_FindFirstMatch ==
    op.name = "FindBySource" =>
        /\ ~fault
        /\ heap = pre
        /\ found = Descend(heap, op.s, op.path)

\* Not found below the first "a", though the second "a" has the child.
C8_Witness ==
    /\ op.name = "FindBySource"
    /\ Len(op.path) = 2
    /\ found = Nil
    /\ \E i, j \in DOMAIN heap[op.s].Tree.elems :
          LET first == heap[op.s].Tree.elems[i]
              later == heap[op.s].Tree.elems[j]
          IN  /\ i < j
              /\ heap[first].Source = op.path[1]
              /\ heap[later].Source = op.path[1]
              /\ FirstChild(heap, later, op.path[2]) # Nil

SingleOverrideChild ==
    /\ IsApply
    /\ BothContainers
    /\ Len(pre[op.o].Tree.elems) = 1
    /\ pre[pre[op.o].Tree.elems[1]].Source # "*"

\* C9: of several children with the source of a non-wildcard override child
\* only the first is merged; the later ones and all their descendants are
\* left unchanged.
C9_OnlyFirstDuplicate ==
    SingleOverrideChild =>
        LET oc == pre[op.o].Tree.elems[1]
            elems == pre[op.s].Tree.elems
        IN  \A i, j \in DOMAIN elems :
               (/\ i < j
                /\ pre[elems[i]].Source = pre[oc].Source
                /\ pre[elems[j]].Source = pre[oc].Source)
               => \A x \in Reach(pre, {elems[j]}) : heap[x] = pre[x]

WildcardBelow ==
    /\ SingleOverrideChild
    /\ LET oc == pre[op.o].Tree.elems[1]
       IN  /\ ~pre[oc].Tree.isNil
           /\ Len(pre[oc].Tree.elems) = 1
           /\ pre[pre[oc].Tree.elems[1]].Source = "*"

\* C9 as amended: every child with the source of a non-wildcard override
\* child is merged against it and descended into, the later ones like the
\* first: a wildcard below the override child reaches the children of each.
C9_AllDuplicatesSelected ==
    WildcardBelow =>
        LET oc == pre[op.o].Tree.elems[1]
            w == pre[oc].Tree.elems[1]
        IN  \A c \in Children(pre, op.s) :
               (pre[c].Source = pre[oc].Source /\ ~pre[c].Tree.isNil)
               => /\ Fields(heap[c]) = Fields(pre[c])
                  /\ \A g \in Children(pre, c) :
                        pre[g].Source # "*" =>
                           Fields(heap[g]) = <<pre[w].Level, pre[w].Message, TRUE>>

\* Both children named "a" had their own child overridden.
C9_Witness ==
    /\ WildcardBelow
    /\ Len(pre[op.s].Tree.elems) = 2
    /\ \A c \in Children(pre, op.s) :
          /\ pre[c].Source = pre[pre[op.o].Tree.elems[1]].Source
          /\ \E g \in Children(pre, c) : heap[g].Override /\ ~pre[g].Override

\* C10: after Apply and then AggregateLevels on the same node, the level of
\* every node with a non-nil child list comes from its children alone (the
\* greatest level above 0 among them, else 0), the message and the flag that
\* Apply set remain, and a node with nil children keeps its level.
C10_OverrideThenAggregate ==
    (op.name = "AggregateLevels" /\ op.afterApply /\ ~fault) =>
        \A x \in Reach(pre, {op.s}) :
            /\ heap[x].Message = pre[x].Message
            /\ heap[x].Override = pre[x].Override
            /\ IF pre[x].Tree.isNil THEN heap[x].Level = pre[x].Level
               ELSE heap[x].Level = Maximum({0} \cup ChildLevels(heap, x))

\* The level the override wrote on the root is replaced by a child's
\* overridden level; message and flag of the root remain.
C10_Witness ==
    /\ op.name = "AggregateLevels"
    /\ op.afterApply
    /\ pre[op.s].Override
    /\ heap[op.s].Override
    /\ heap[op.s].Message = "o"
    /\ pre[op.s].Level = 600
    /\ heap[op.s].Level = 700
    /\ \E c \in Children(heap, op.s) :
          heap[c].Override /\ heap[c].Tree.isNil /\ heap[c].Level = 700

====
